---- MODULE Spec2Model ----
(***************************************************************************)
(* Model of the Nuzlocke timeline page (src/script.js): the per-run        *)
(* collapse store kept in localStorage, the rendered episode sections,     *)
(* the permalink resolver and the asynchronous loadAndDisplayRun.          *)
(***************************************************************************)
EXTENDS Integers, Sequences, FiniteSets, TLC

VARIABLES
  pc,          \* "boot" before init() ran, "ready" after
  doc,         \* events document served for each run (server data)
  index,       \* runs index document served (server data)
  store,       \* localStorage value under COLLAPSED_KEY_PREFIX + runId
  quota,       \* TRUE when localStorage.setItem throws
  container,   \* the page has a #timeline element
  current,     \* CURRENT_RUN_ID
  runs,        \* the runs list init() loaded: the options of #run-selector
  runSel,      \* value of #run-selector
  filterType,  \* value of #filter-type
  search,      \* value of #search
  searchTimer, \* milliseconds until the pending search timeout is due, or NoTimer
  typing,      \* search input: bursts begun, inputs made, loads the timeout issued
  url,         \* window.location: run parameter, other query pairs, hash
  dom,         \* rendered .episode-section elements, in document order
  domSrc,      \* run whose events the rendered sections were built from
  message,     \* #message shown ("No events found for this run.")
  selector,    \* options of #episode-selector (episode numbers)
  wired,       \* expand-all / collapse-all handlers attached
  details,     \* run whose metadata #run-details shows, or "hidden"
  pending,     \* loadAndDisplayRun invocations suspended at an await
  nreq,        \* number of loadAndDisplayRun invocations issued so far
  timers,      \* episode numbers with a scroll timeout pending
  scrolled,    \* episode number last scrolled to, or NoScroll
  seedCount,   \* per run key: how many renders took the default-seeding branch
  steps,       \* number of user actions so far
  ref,         \* per run: collapse set obtained by applying the operations in order
  lastOp,      \* the handler that ran last, with its arguments
  clipboard,   \* the link the permalink button copied last, with its episode
  img          \* an <img> element the page created for a species name

vars == <<pc, doc, index, store, quota, container, current, runs, runSel,
          filterType, search, searchTimer, typing, url, dom, domSrc, message,
          selector, wired, details, pending, nreq, timers, scrolled, seedCount,
          steps, ref, lastOp, clipboard, img>>

(* what the page is served and what it is built on: no handler writes these *)
envVars == <<doc, index, quota, container>>

(* the search field and its debounce timeout *)
searchVars == <<search, searchTimer, typing>>

(* the clipboard and the image element: written by their own handlers only *)
sideVars == <<clipboard, img>>

----------------------------------------------------------------------------
(* Bounds *)
MaxSteps == 2         \* user actions (selections, clicks) in one behaviour
MaxQueryParams == 2   \* pairs in the page's query string
MaxHashParams == 1    \* pairs in the hash's query suffix
MaxEvents == 3        \* events in a generated events document
MaxInputs == 2        \* input events on the search field in one behaviour

(* Program constants *)
DEFAULT_RUN_ID == "run-02"
Null == "null"

Runs == {"run-01", "run-02"}

Episodes == {0, 1, 2}
NoEp == -1            \* ev.episode is undefined
NaN == -9             \* Number() of a non-numeric string
NoScroll == -3

----------------------------------------------------------------------------
(* Sequence helpers *)
Range(s) == {s[i] : i \in 1..Len(s)}

RECURSIVE SeqRemove(_, _)
SeqRemove(s, e) ==
  IF s = <<>> THEN <<>>
  ELSE IF Head(s) = e THEN SeqRemove(Tail(s), e)
  ELSE <<Head(s)>> \o SeqRemove(Tail(s), e)

RECURSIVE Dedupe(_)
Dedupe(s) ==
  IF s = <<>> THEN <<>>
  ELSE <<Head(s)>> \o Dedupe(SeqRemove(Tail(s), Head(s)))

SeqsUpTo(S, n) == UNION {[1..k -> S] : k \in 0..n}

(* JS Set, kept in insertion order *)
SetAdd(s, e) == IF e \in Range(s) THEN s ELSE Append(s, e)
SetDelete(s, e) == SeqRemove(s, e)

----------------------------------------------------------------------------
(* Text.  A string of the page's data is one of the words below; its
   characters are given by Chars, and the string functions of the code are
   computed on the characters. *)
Words == {"", " ", "all", "Caught", "caught", "fainted", "end", "Luc", "luc",
          "LUC ", "Cave", "cave", "Gift", "gift", "a"}

Chars(w) ==
  CASE w = "" -> <<>>
    [] w = " " -> <<" ">>
    [] w = "all" -> <<"a", "l", "l">>
    [] w = "Caught" -> <<"C", "a", "u", "g", "h", "t">>
    [] w = "caught" -> <<"c", "a", "u", "g", "h", "t">>
    [] w = "fainted" -> <<"f", "a", "i", "n", "t", "e", "d">>
    [] w = "end" -> <<"e", "n", "d">>
    [] w = "Luc" -> <<"L", "u", "c">>
    [] w = "luc" -> <<"l", "u", "c">>
    [] w = "LUC " -> <<"L", "U", "C", " ">>
    [] w = "Cave" -> <<"C", "a", "v", "e">>
    [] w = "cave" -> <<"c", "a", "v", "e">>
    [] w = "Gift" -> <<"G", "i", "f", "t">>
    [] w = "gift" -> <<"g", "i", "f", "t">>
    [] w = "a" -> <<"a">>

(* String.prototype.toLowerCase *)
toLowerCase(cs) ==
  [i \in 1..Len(cs) |->
     CASE cs[i] = "C" -> "c"
       [] cs[i] = "G" -> "g"
       [] cs[i] = "L" -> "l"
       [] cs[i] = "M" -> "m"
       [] cs[i] = "U" -> "u"
       [] OTHER -> cs[i]]

(* String.prototype.trim *)
RECURSIVE trimStart(_)
trimStart(cs) ==
  IF cs # <<>> /\ Head(cs) = " " THEN trimStart(Tail(cs)) ELSE cs

RECURSIVE trimEnd(_)
trimEnd(cs) ==
  IF cs # <<>> /\ cs[Len(cs)] = " " THEN trimEnd(SubSeq(cs, 1, Len(cs) - 1)) ELSE cs

trim(cs) == trimEnd(trimStart(cs))

(* String.prototype.includes *)
includes(cs, q) ==
  \E i \in 0..(Len(cs) - Len(q)) : SubSeq(cs, i + 1, i + Len(q)) = q

(* a || b on strings: the empty string is falsy *)
Or(a, b) == IF a # "" THEN a ELSE b

----------------------------------------------------------------------------
(* Species names, file names and image URLs.  A value is null or a string
   given by its characters; "rsquo" stands for the character U+2019. *)
JsNull == [kind |-> "null", cs |-> <<>>]
JsString(cs) == [kind |-> "string", cs |-> cs]
Falsy(v) == v.kind = "null" \/ v.cs = <<>>

(* the characters of [a-z0-9] *)
LowerAlnum ==
  {"a", "b", "c", "d", "e", "f", "g", "h", "i", "j", "k", "l", "m", "n", "o",
   "p", "q", "r", "s", "t", "u", "v", "w", "x", "y", "z",
   "0", "1", "2", "3", "4", "5", "6", "7", "8", "9"}

(* String.prototype.toUpperCase *)
toUpperCase(cs) ==
  [i \in 1..Len(cs) |->
     CASE cs[i] = "e" -> "E"
       [] cs[i] = "i" -> "I"
       [] cs[i] = "m" -> "M"
       [] cs[i] = "r" -> "R"
       [] OTHER -> cs[i]]

(* replace(/\s+/g, "-"): every run of whitespace becomes one hyphen *)
RECURSIVE replaceSpaceRuns(_)
replaceSpaceRuns(cs) ==
  IF cs = <<>> THEN <<>>
  ELSE IF Head(cs) = " " THEN <<"-">> \o replaceSpaceRuns(trimStart(cs))
  ELSE <<Head(cs)>> \o replaceSpaceRuns(Tail(cs))

speciesToFilenameKeepsDots(name) ==
  IF Falsy(name) THEN JsNull
  ELSE
    LET lower == trim(toLowerCase(name.cs))
        bare == SelectSeq(lower, LAMBDA c : c \notin {"'", "rsquo"})
        dashed == replaceSpaceRuns(bare)
    IN JsString(SelectSeq(dashed,
                  LAMBDA c : c \in LowerAlnum \cup {"-", "."}))

speciesToFilename(name) ==
  IF Falsy(name) THEN JsNull
  ELSE
    LET lower == trim(toLowerCase(name.cs))
        bare == SelectSeq(lower, LAMBDA c : c \notin {"'", "rsquo"})
        dashed == replaceSpaceRuns(bare)
    IN JsString(SelectSeq(dashed, LAMBDA c : c \in LowerAlnum \cup {"-"}))

SPRITES_PATH == <<"s", "p", "r", "i", "t", "e", "s", "/">>
BADGES_PATH == SPRITES_PATH \o <<"b", "a", "d", "g", "e", "s", "/">>

spriteUrlFor(species) ==
  LET filename == speciesToFilename(species) IN
  IF Falsy(filename) THEN JsNull
  ELSE JsString(SPRITES_PATH \o filename.cs \o <<".", "p", "n", "g">>)

badgeUrlFor(name) ==
  LET filename == speciesToFilename(name) IN
  IF Falsy(filename) THEN JsNull
  ELSE JsString(BADGES_PATH \o filename.cs \o <<".", "p", "n", "g">>)

(* An <img> element is [src, onerror, label]: src is null (never assigned), a
   URL string, or the placeholder [kind "data"] with the letters drawn in it;
   onerror is TRUE while the handler of attachPlaceholderOnErrorOrNull is
   installed, and label is the label that handler closes over. *)
NewImg == [src |-> JsNull, onerror |-> FALSE, label |-> JsNull]

setSvgPlaceholder(imgEl, label) ==
  LET text == IF Falsy(label) THEN <<>> ELSE label.cs
      short == toUpperCase(SubSeq(text, 1, IF Len(text) < 3 THEN Len(text) ELSE 3))
  IN [imgEl EXCEPT !.src = [kind |-> "data", cs |-> short]]

attachPlaceholderOnErrorOrNull(imgEl, label, u) ==
  IF Falsy(u) THEN setSvgPlaceholder(imgEl, label)
  ELSE [imgEl EXCEPT !.onerror = TRUE, !.label = label]

(* imgEl.onerror: the handler removes itself, then sets the placeholder *)
onerrorStaysArmed(imgEl) ==
  setSvgPlaceholder(imgEl, imgEl.label)

onerrorHandler(imgEl) ==
  setSvgPlaceholder([imgEl EXCEPT !.onerror = FALSE], imgEl.label)

-----------------------------------------------------------------------------
(* Documents and responses.  A parsed JSON document is
     [kind, arr]: "array" with its elements, "index" (an object whose runs
   member is the array arr), "object" (any other value) or "null".
   A response is [status, json]: status "ok", or the way the fetch failed. *)
JsonNull == [kind |-> "null", arr |-> <<>>]
JsonObject == [kind |-> "object", arr |-> <<>>]
JsonArray(a) == [kind |-> "array", arr |-> a]
JsonIndex(a) == [kind |-> "index", arr |-> a]

Response(st, j) == [status |-> st, json |-> j]
Ok(j) == Response("ok", j)
NetworkError == Response("rejected", JsonNull)     \* fetch() rejects
HttpError(j) == Response("404", j)                 \* res.ok is false, body j
ParseError == Response("badjson", JsonNull)        \* res.json() rejects

(* fetchJson(path): the parsed document, or null *)
fetchJsonNoStatus(resp) ==
  IF resp.status \in {"ok", "404"} THEN resp.json ELSE JsonNull

fetchJson(resp) ==
  IF resp.status = "ok" THEN resp.json ELSE JsonNull

fetchRunEvents(resp) ==
  LET data == fetchJson(resp) IN
  IF data.kind = "null" THEN <<>>
  ELSE IF data.kind = "array" THEN data.arr
  ELSE <<>>

loadRunsList(resp) ==
  LET idx == fetchJson(resp) IN
  IF idx.kind # "index" \/ Len(idx.arr) = 0 THEN <<DEFAULT_RUN_ID>>
  ELSE idx.arr

----------------------------------------------------------------------------
(* Collapse store: localStorage values.  The elements of a stored list are
   numbers, the JSON string of a number (JStr), a JSON string that is not a
   number (JWord) or JSON null (JNull). *)
JStr(n) == 10 + n
JNull == 18
JWord == 19

(* Number(x) of an element of a parsed list *)
NumberOf(x) ==
  IF x = JNull THEN 0
  ELSE IF x = JWord THEN NaN
  ELSE IF x >= 10 THEN x - 10
  ELSE x

(* JSON.stringify of the set's values: NaN is written as null *)
stringify(set) == [i \in 1..Len(set) |-> IF set[i] = NaN THEN JNull ELSE set[i]]

Absent == [kind |-> "absent", arr |-> <<>>]     \* getItem returns null
BadJson == [kind |-> "badjson", arr |-> <<>>]   \* JSON.parse throws
NotList == [kind |-> "notlist", arr |-> <<>>]   \* parses, not an array
List(a) == [kind |-> "list", arr |-> a]

loadCollapsedMapRaw(st, runId) ==
  IF st[runId].kind = "list" THEN Dedupe(st[runId].arr) ELSE <<>>

loadCollapsedMap(st, runId) ==
  IF st[runId].kind = "list"
  THEN Dedupe([i \in 1..Len(st[runId].arr) |-> NumberOf(st[runId].arr[i])])
  ELSE <<>>

(* setItem throws when the quota is exceeded; the exception is swallowed *)
saveCollapsedMapClears(st, runId, set) ==
  IF quota THEN [st EXCEPT ![runId] = Absent]
  ELSE [st EXCEPT ![runId] = List(stringify(set))]

saveCollapsedMap(st, runId, set) ==
  IF quota THEN st ELSE [st EXCEPT ![runId] = List(stringify(set))]

Members(st, runId) == Range(loadCollapsedMap(st, runId))

----------------------------------------------------------------------------
(* Rendered sections.  A section is
     [ep, expanded, hidden, runKey, items]
   ep: data-episode; expanded: banner aria-expanded = "true";
   hidden: contents carry class "collapsed" and aria-hidden = "true";
   runKey: the run id captured by the banner's click listener;
   items: the children of the contents container, in order. *)

RunKey(cur) == IF cur = Null THEN DEFAULT_RUN_ID ELSE cur

FindSection(dm, episode) ==
  IF \E i \in 1..Len(dm) : dm[i].ep = episode
  THEN CHOOSE i \in 1..Len(dm) :
         dm[i].ep = episode /\ \A j \in 1..(i-1) : dm[j].ep # episode
  ELSE 0

Rendered(dm) == {dm[i].ep : i \in 1..Len(dm)}

(* toggleEpisodeSection(runId, episode, expand); expand is "true", "false"
   or "undefined".  Result: the sections and the storage afterwards. *)
toggleReplacesSet(dm, st, runId, episode, expand) ==
  LET i == FindSection(dm, episode) IN
  IF i = 0 THEN [dom |-> dm, store |-> st]
  ELSE
    LET isExpanded == dm[i].expanded
        willExpand == IF expand = "true" THEN TRUE
                      ELSE IF expand = "false" THEN FALSE
                      ELSE ~isExpanded
        map2 == IF ~willExpand THEN <<episode>> ELSE <<>>
    IN [dom |-> [dm EXCEPT ![i].expanded = willExpand, ![i].hidden = ~willExpand],
        store |-> saveCollapsedMap(st, runId, map2)]

toggleNoPersist(dm, st, runId, episode, expand) ==
  LET i == FindSection(dm, episode) IN
  IF i = 0 THEN [dom |-> dm, store |-> st]
  ELSE
    LET isExpanded == dm[i].expanded
        willExpand == IF expand = "true" THEN TRUE
                      ELSE IF expand = "false" THEN FALSE
                      ELSE ~isExpanded
    IN [dom |-> [dm EXCEPT ![i].expanded = willExpand, ![i].hidden = ~willExpand],
        store |-> st]

toggleMissingPersists(dm, st, runId, episode, expand) ==
  LET i == FindSection(dm, episode)
      map == loadCollapsedMap(st, runId)
  IN
  IF i = 0
  THEN [dom |-> dm,
        store |-> saveCollapsedMap(st, runId,
                    IF expand = "true" THEN SetDelete(map, episode)
                    ELSE SetAdd(map, episode))]
  ELSE
    LET isExpanded == dm[i].expanded
        willExpand == IF expand = "true" THEN TRUE
                      ELSE IF expand = "false" THEN FALSE
                      ELSE ~isExpanded
        map2 == IF ~willExpand THEN SetAdd(map, episode) ELSE SetDelete(map, episode)
    IN [dom |-> [dm EXCEPT ![i].expanded = willExpand, ![i].hidden = ~willExpand],
        store |-> saveCollapsedMap(st, runId, map2)]

toggleEpisodeSection(dm, st, runId, episode, expand) ==
  LET i == FindSection(dm, episode) IN
  IF i = 0 THEN [dom |-> dm, store |-> st]
  ELSE
    LET isExpanded == dm[i].expanded
        willExpand == IF expand = "true" THEN TRUE
                      ELSE IF expand = "false" THEN FALSE
                      ELSE ~isExpanded
        map == loadCollapsedMap(st, runId)
        map2 == IF ~willExpand THEN SetAdd(map, episode) ELSE SetDelete(map, episode)
    IN [dom |-> [dm EXCEPT ![i].expanded = willExpand, ![i].hidden = ~willExpand],
        store |-> saveCollapsedMap(st, runId, map2)]

(* setAllCollapsed(runId, collapsed): the map is loaded once, every section is
   toggled (each toggle loads and saves on its own), and the map loaded at the
   start, updated alongside, is saved last. *)
RECURSIVE SetAllFrom(_, _, _, _, _, _)
SetAllFrom(i, dm, st, map, runId, collapsed) ==
  IF i > Len(dm) THEN [dom |-> dm, store |-> saveCollapsedMap(st, runId, map)]
  ELSE
    LET ep == dm[i].ep
        t == toggleEpisodeSection(dm, st, runId, ep, IF collapsed THEN "false" ELSE "true")
        map2 == IF collapsed THEN SetAdd(map, ep) ELSE SetDelete(map, ep)
    IN SetAllFrom(i + 1, t.dom, t.store, map2, runId, collapsed)

setAllCollapsedStale(dm, st, runId, collapsed) ==
  LET map == loadCollapsedMap(st, runId)
      t == SetAllFrom(1, dm, st, map, runId, collapsed)
  IN [dom |-> t.dom, store |-> saveCollapsedMap(t.store, runId, map)]

setAllCollapsed(dm, st, runId, collapsed) ==
  SetAllFrom(1, dm, st, loadCollapsedMap(st, runId), runId, collapsed)

----------------------------------------------------------------------------
(* URL.  url = [run, search, anchor, hashq]
   run: value of the "run" query parameter, Null when absent;
   search: the other pairs of location.search, in order;
   anchor: the part of the hash before the first "?";
   hashq: the pairs after that "?". *)
Vals == {"0", "1", "2", "x"}
P(k, v) == [k |-> k, v |-> v]
Pairs == {P("spoiler", "0"), P("spoiler", "1"), P("episode", "2"), P("episode", "x")}

NoHash == [kind |-> "null", val |-> ""]          \* location.hash is empty
EmptyAnchor == [kind |-> "empty", val |-> ""]    \* hash is "#?..."
OtherAnchor == [kind |-> "other", val |-> ""]    \* "#top" and the like
EpAnchor(v) == [kind |-> "episode", val |-> v]   \* "#episode-" followed by v
Anchors == {NoHash, EmptyAnchor, OtherAnchor} \cup {EpAnchor(v) : v \in Vals}

IsDigits(v) == v \in {"0", "1", "2"}
Number(v) == IF v = "0" THEN 0 ELSE IF v = "1" THEN 1 ELSE IF v = "2" THEN 2 ELSE NaN

(* URLSearchParams.get: the first value of the key, or null *)
ParamsGet(ps, k) ==
  IF \E i \in 1..Len(ps) : ps[i].k = k
  THEN ps[CHOOSE i \in 1..Len(ps) : ps[i].k = k /\ \A j \in 1..(i-1) : ps[j].k # k].v
  ELSE Null

(* URLSearchParams.set: the first pair of the key takes the value, the other
   pairs of the key are removed; without such a pair one is appended *)
RECURSIVE DropKey(_, _)
DropKey(ps, k) ==
  IF ps = <<>> THEN <<>>
  ELSE IF Head(ps).k = k THEN DropKey(Tail(ps), k)
  ELSE <<Head(ps)>> \o DropKey(Tail(ps), k)

RECURSIVE ParamsSet(_, _, _)
ParamsSet(ps, k, v) ==
  IF ps = <<>> THEN <<[k |-> k, v |-> v]>>
  ELSE IF Head(ps).k = k THEN <<[k |-> k, v |-> v]>> \o DropKey(Tail(ps), k)
  ELSE <<Head(ps)>> \o ParamsSet(Tail(ps), k, v)

RECURSIVE MergeParams(_, _)
MergeParams(params, hashParams) ==
  IF hashParams = <<>> THEN params
  ELSE MergeParams(ParamsSet(params, Head(hashParams).k, Head(hashParams).v),
                   Tail(hashParams))

parseHashQueryWins(u) ==
  IF u.anchor.kind = "null" THEN [anchor |-> u.anchor, params |-> u.search]
  ELSE [anchor |-> u.anchor, params |-> u.search \o u.hashq]

parseHashAnchorAndParams(u) ==
  IF u.anchor.kind = "null" THEN [anchor |-> u.anchor, params |-> u.search]
  ELSE [anchor |-> u.anchor, params |-> MergeParams(u.search, u.hashq)]

(* handlePermalinkOnLoad: the sections and storage afterwards, and the episode
   numbers for which a scroll timeout was set *)
expandAndScrollToggle(dm, st, cur, episodeNum, shouldExpand) ==
  LET t == toggleEpisodeSection(dm, st, RunKey(cur), episodeNum, "undefined")
  IN [dom |-> t.dom, store |-> t.store, timer |-> {episodeNum}]

expandAndScroll(dm, st, cur, episodeNum, shouldExpand) ==
  LET t == toggleEpisodeSection(dm, st, RunKey(cur), episodeNum,
                                IF shouldExpand THEN "true" ELSE "false")
  IN [dom |-> t.dom, store |-> t.store, timer |-> {episodeNum}]

NoTarget == [found |-> FALSE, ep |-> NaN, expand |-> TRUE]

(* the episode handlePermalinkOnLoad aims at and the state it forces *)
permalinkTargetMergedFallback(u) ==
  LET p == parseHashAnchorAndParams(u) IN
  IF p.anchor.kind = "episode" /\ IsDigits(p.anchor.val)
  THEN [found |-> TRUE, ep |-> Number(p.anchor.val),
        expand |-> ParamsGet(p.params, "spoiler") # "0"]
  ELSE
    LET epi == ParamsGet(p.params, "episode")
        spoilerQ == ParamsGet(p.params, "spoiler")
    IN IF epi # Null /\ Number(epi) # NaN
       THEN [found |-> TRUE, ep |-> Number(epi), expand |-> spoilerQ # "0"]
       ELSE NoTarget

permalinkTargetAlwaysExpand(u) ==
  LET p == parseHashAnchorAndParams(u) IN
  IF p.anchor.kind = "episode" /\ IsDigits(p.anchor.val)
  THEN [found |-> TRUE, ep |-> Number(p.anchor.val), expand |-> TRUE]
  ELSE
    LET epi == ParamsGet(u.search, "episode")
    IN IF epi # Null /\ Number(epi) # NaN
       THEN [found |-> TRUE, ep |-> Number(epi), expand |-> TRUE]
       ELSE NoTarget

permalinkTarget(u) ==
  LET p == parseHashAnchorAndParams(u) IN
  IF p.anchor.kind = "episode" /\ IsDigits(p.anchor.val)
  THEN [found |-> TRUE, ep |-> Number(p.anchor.val),
        expand |-> ParamsGet(p.params, "spoiler") # "0"]
  ELSE
    LET epi == ParamsGet(u.search, "episode")
        spoilerQ == ParamsGet(u.search, "spoiler")
    IN IF epi # Null /\ Number(epi) # NaN
       THEN [found |-> TRUE, ep |-> Number(epi), expand |-> spoilerQ # "0"]
       ELSE NoTarget

handlePermalinkOnLoad(dm, st, cur, u) ==
  LET t == permalinkTarget(u) IN
  IF t.found THEN expandAndScroll(dm, st, cur, t.ep, t.expand)
  ELSE [dom |-> dm, store |-> st, timer |-> {}]

----------------------------------------------------------------------------
(* Events.  An event is a record: id is its position in the fetched
   document, episode is NoEp when the field is absent, ts is the timestamp's
   digit string read as a number (0: absent or empty); the other fields are
   words, "" when the field is absent (species and nickname are those of
   ev.pokemon). *)
Ep(ev) == IF ev.episode = NoEp THEN 0 ELSE ev.episode      \* ev.episode ?? 0

Lower(t) == IF t = "Caught" THEN "caught" ELSE t           \* toLowerCase

RunEndTypes == {"run_end", "runended", "run_ended", "end"}

(* plain string order of two digit strings below 100 *)
localeCompareLex(ta, tb) ==
  LET first(t) == IF t < 10 THEN t ELSE t \div 10 IN
  IF ta = tb THEN 0
  ELSE IF ta = 0 THEN -1
  ELSE IF tb = 0 THEN 1
  ELSE IF first(ta) # first(tb) THEN first(ta) - first(tb)
  ELSE ta - tb

(* localeCompare(..., {numeric: true}): digit runs compare as numbers *)
localeCompare(ta, tb) == ta - tb

compareEvents(a, b) ==
  IF Ep(a) # Ep(b) THEN Ep(a) - Ep(b) ELSE localeCompare(a.ts, b.ts)

(* Array.prototype.sort is stable: an element goes after every element that
   does not compare greater *)
RECURSIVE InsertSorted(_, _)
InsertSorted(s, e) ==
  IF s = <<>> THEN <<e>>
  ELSE IF compareEvents(Head(s), e) <= 0 THEN <<Head(s)>> \o InsertSorted(Tail(s), e)
  ELSE <<e>> \o s

RECURSIVE SortFrom(_, _)
SortFrom(acc, rest) ==
  IF rest = <<>> THEN acc ELSE SortFrom(InsertSorted(acc, Head(rest)), Tail(rest))

sortEvents(events) == SortFrom(<<>>, events)

(* episodesOrder: the episode numbers in first-seen order *)
RECURSIVE EpisodesOrderFrom(_, _)
EpisodesOrderFrom(acc, rest) ==
  IF rest = <<>> THEN acc
  ELSE EpisodesOrderFrom(SetAdd(acc, Ep(Head(rest))), Tail(rest))

episodesOrderRepeats(events) == [i \in 1..Len(events) |-> Ep(events[i])]

episodesOrder(events) == EpisodesOrderFrom(<<>>, events)

(* episodesMap.get(ep): the events of the episode, in list order *)
episodesMapGet(events, ep) == SelectSeq(events, LAMBDA ev : Ep(ev) = ep)

(* createEventElement: the location the card's obtained-line shows *)
cardLocation(ev) ==
  Or(ev.location, Or(ev.obtained, Or(ev.obtainedVia, Or(ev.method, ev.fromLocation))))

(* the child appended to the episode's contents for ev: a .run-end-banner or
   the card of createEventElement *)
(* ev.special as JSON gives it: [kind, label] with kind "undefined", "null",
   "false", "true", "number" (a non-zero number), "string" (label is the
   string) or "object" (label is its label member, "" when it has none) *)
Special(k, l) == [kind |-> k, label |-> l]

(* !ev.special is false *)
Truthy(sp) ==
  \/ sp.kind \in {"true", "number", "object"}
  \/ sp.kind = "string" /\ sp.label # ""

(* createEventElement: the failed / illegal flags *)
isFailed(ev) == ev.failed \/ Lower(ev.type) = "failed"
isIllegal(ev) == ev.illegal \/ Lower(ev.type) = "illegal"

(* createEventElement: data-ribbon of the header, "" when not set *)
headerRibbon(ev) ==
  IF isFailed(ev) /\ ~Truthy(ev.special) THEN "Failed Encounter"
  ELSE IF isIllegal(ev) /\ ~Truthy(ev.special) THEN "Illegal Encounter"
  ELSE ""

(* `Named after ${highlightName}` *)
NamedAfter(highlightName) ==
  IF highlightName = "Luc" THEN "Named after Luc" ELSE "Named after"

(* markSpecialEvent(ev, el, {highlightName}): data-ribbon of the header
   afterwards, given the one createEventElement left *)
markSpecialEvent(ev, ribbon, highlightName) ==
  LET fallback == Or(ev.nickname, NamedAfter(highlightName))
      sp == ev.special
  IN IF sp.kind = "string" THEN Or(sp.label, fallback)
     ELSE IF sp.kind = "object" THEN Or(sp.label, fallback)
     ELSE IF sp.kind = "true" THEN fallback
     ELSE ribbon

ItemAllCards(ev) ==
  [id |-> ev.id, kind |-> "event", location |-> cardLocation(ev),
   ribbon |-> markSpecialEvent(ev, headerRibbon(ev), "Luc")]

Item(ev) ==
  IF Lower(ev.type) \in RunEndTypes
  THEN [id |-> ev.id, kind |-> "run-end-banner", location |-> "", ribbon |-> ""]
  ELSE [id |-> ev.id, kind |-> "event", location |-> cardLocation(ev),
        ribbon |-> markSpecialEvent(ev, headerRibbon(ev), "Luc")]

(* loadAndDisplayRun: the location the search looks at *)
searchLocation(e) == Or(e.location, Or(e.obtained, e.obtainedVia))

searchMatches(e, q) ==
  LET low(w) == toLowerCase(Chars(w)) IN
  \/ includes(low(e.species), q)
  \/ includes(low(e.nickname), q)
  \/ includes(low(e.notes), q)
  \/ includes(low(e.type), q)
  \/ includes(low(searchLocation(e)), q)
  \/ includes(low(e.badge), q)

(* loadAndDisplayRun: the type filter, then the search *)
filterEventsAny(allEvents, ft, text) ==
  LET q == toLowerCase(trim(Chars(text)))
      typed == IF ft # "all"
               THEN SelectSeq(allEvents, LAMBDA e : Lower(e.type) = Lower(ft))
               ELSE allEvents
  IN IF q # <<>> /\ ft = "all" THEN SelectSeq(allEvents, LAMBDA e : searchMatches(e, q))
     ELSE typed

filterEvents(allEvents, ft, text) ==
  LET q == toLowerCase(trim(Chars(text)))
      typed == IF ft # "all"
               THEN SelectSeq(allEvents, LAMBDA e : Lower(e.type) = Lower(ft))
               ELSE allEvents
  IN IF q # <<>> THEN SelectSeq(typed, LAMBDA e : searchMatches(e, q))
     ELSE typed

(* Default seeding (renderTimeline, "persisted collapsed map") *)
LastOf(s) == s[Len(s)]

seedByContent(st, runKey, order) ==
  LET persisted == loadCollapsedMap(st, runKey)
      hasPersisted == persisted # <<>>
  IN IF ~hasPersisted /\ Len(order) > 0
     THEN LET p2 == SetAdd(persisted, LastOf(order))
          IN [persisted |-> p2, store |-> saveCollapsedMap(st, runKey, p2), seeded |-> TRUE]
     ELSE [persisted |-> persisted, store |-> st, seeded |-> FALSE]

seedAlways(st, runKey, order) ==
  LET persisted == loadCollapsedMap(st, runKey)
  IN IF Len(order) > 0
     THEN LET p2 == SetAdd(persisted, LastOf(order))
          IN [persisted |-> p2, store |-> saveCollapsedMap(st, runKey, p2), seeded |-> TRUE]
     ELSE [persisted |-> persisted, store |-> st, seeded |-> FALSE]

seedDefault(st, runKey, order) ==
  LET persisted == loadCollapsedMap(st, runKey)
      hasPersisted == st[runKey].kind # "absent"
  IN IF ~hasPersisted /\ Len(order) > 0
     THEN LET p2 == SetAdd(persisted, LastOf(order))
          IN [persisted |-> p2, store |-> saveCollapsedMap(st, runKey, p2), seeded |-> TRUE]
     ELSE [persisted |-> persisted, store |-> st, seeded |-> FALSE]

buildSections(sorted, order, persisted, runKey) ==
  [i \in 1..Len(order) |->
     LET ep == order[i]
         isExpanded == ep \notin Range(persisted)
         epEvents == episodesMapGet(sorted, ep)
         epDate == epEvents[1].date
     IN [ep |-> ep, expanded |-> isExpanded, hidden |-> ~isExpanded,
         runKey |-> runKey, date |-> epDate,
         items |-> [j \in 1..Len(epEvents) |-> Item(epEvents[j])]]]

(* renderTimeline(events) on a non-empty list, up to and including
   handlePermalinkOnLoad *)
renderTimeline(events, st, cur, u) ==
  LET sorted == sortEvents(events)
      order == episodesOrder(sorted)
      runKey == RunKey(cur)
      seed == seedDefault(st, runKey, order)
      sections == buildSections(sorted, order, seed.persisted, runKey)
      link == handlePermalinkOnLoad(sections, seed.store, cur, u)
  IN [dom |-> link.dom, store |-> link.store, timer |-> link.timer,
      selector |-> order, seeded |-> seed.seeded, mid |-> seed.store[runKey],
      midDom |-> sections]

----------------------------------------------------------------------------
(* Data served to the page *)
Ev(i, e, t, ty) ==
  [id |-> i, episode |-> e, ts |-> t, type |-> ty, date |-> "",
   species |-> "", nickname |-> "", notes |-> "", badge |-> "",
   location |-> "", obtained |-> "", obtainedVia |-> "", method |-> "",
   fromLocation |-> "", special |-> Special("undefined", ""), failed |-> FALSE,
   illegal |-> FALSE]

MainDoc ==
  [r \in Runs |->
     IF r = "run-01"
     THEN <<Ev(1, 2, 2, "Caught"), Ev(2, 1, 10, "fainted"), Ev(3, 1, 2, "fainted")>>
     ELSE <<Ev(1, 2, 10, "caught"), Ev(2, NoEp, 0, "end")>>]

FilterTypes == {"all", "caught"}

St(a, b) == [r \in Runs |-> IF r = "run-01" THEN a ELSE b]

InitStores ==
  { St(Absent, Absent),
    St(List(<<>>), BadJson),
    St(List(<<2, 0>>), List(<<2, 1>>)) }

Url(r, q, a, h) == [run |-> r, search |-> q, anchor |-> a, hashq |-> h]
UrlPlain == Url(Null, <<>>, NoHash, <<>>)
UrlRun1Ep1 == Url("run-01", <<>>, EpAnchor("1"), <<>>)
UrlEp2Safe == Url(Null, <<>>, EpAnchor("2"), <<P("spoiler", "0")>>)
UrlQueryEp2 == Url(Null, <<P("episode", "2")>>, OtherAnchor, <<P("spoiler", "0")>>)

(* stored values and URL the page is opened with *)
MainInits ==
  { [store |-> St(Absent, Absent), url |-> UrlPlain],
    [store |-> St(Absent, Absent), url |-> UrlEp2Safe],
    [store |-> St(List(<<>>), BadJson), url |-> UrlRun1Ep1],
    [store |-> St(List(<<>>), BadJson), url |-> UrlQueryEp2],
    [store |-> St(List(<<2, 0>>), List(<<2, 1>>)), url |-> UrlRun1Ep1],
    [store |-> St(List(<<2, 0>>), List(<<2, 1>>)), url |-> UrlEp2Safe] }

(* the runs index served to the page *)
MainIndex == Ok(JsonIndex(<<"run-01", "run-02">>))

NoTimer == -1
SEARCH_DELAY == 240   \* setTimeout(..., 240)
TickMs == 120         \* time advances in steps of 120 ms

NoOp ==
  [kind |-> "none", run |-> Null, ep |-> NaN, flag |-> FALSE, mid |-> Absent,
   fail |-> FALSE]
Op(k, r, e, f, m) ==
  [kind |-> k, run |-> r, ep |-> e, flag |-> f, mid |-> m, fail |-> FALSE]

(* the page as served in the normal case: index present, storage writable,
   #timeline present *)
InitEnv ==
  /\ index = MainIndex
  /\ quota = FALSE
  /\ container = TRUE

(* the form controls as the markup leaves them *)
InitForm ==
  /\ filterType = "all"
  /\ search = ""

InitCommon ==
  /\ pc = "boot"
  /\ current = Null
  /\ runs = <<>>
  /\ runSel = Null
  /\ searchTimer = NoTimer
  /\ typing = [bursts |-> 0, inputs |-> 0, loads |-> 0, since |-> 0]
  /\ dom = <<>>
  /\ domSrc = Null
  /\ message = FALSE
  /\ selector = <<>>
  /\ wired = FALSE
  /\ details = "hidden"
  /\ pending = {}
  /\ nreq = 0
  /\ timers = {}
  /\ scrolled = NoScroll
  /\ seedCount = [r \in Runs |-> 0]
  /\ steps = 0
  /\ ref = [r \in Runs |-> Members(store, r)]
  /\ lastOp = NoOp

(* nothing copied yet, no image created yet *)
NoClip == [link |-> UrlPlain, ep |-> NaN, shift |-> FALSE]
NoImg == [name |-> JsNull, made |-> FALSE, url |-> JsNull, el |-> NewImg,
          loading |-> FALSE, sets |-> 0, errors |-> 0]

InitSide ==
  /\ clipboard = NoClip
  /\ img = NoImg

Init ==
  /\ doc = MainDoc
  /\ \E c \in MainInits : store = c.store /\ url = c.url
  /\ InitEnv
  /\ InitForm
  /\ InitCommon
  /\ InitSide

----------------------------------------------------------------------------
(* loadAndDisplayRun(runId), up to its first await *)
Request(runId) ==
  LET r == IF runId \in {Null, ""} THEN DEFAULT_RUN_ID ELSE runId IN
  /\ current' = r
  /\ nreq' = nreq + 1
  /\ pending' = pending \cup {[id |-> nreq + 1, run |-> r, phase |-> "events"]}

(* init(): the initial run.  runParam && runs.find(...)?.id is falsy when the
   parameter is absent, empty or not an id of the list *)
initialRunFirst(runParam, rs) ==
  LET found == IF runParam # Null /\ runParam \in Range(rs) THEN runParam ELSE ""
      first == IF rs = <<>> THEN "" ELSE rs[1]
  IN Or(found, Or(first, Or(DEFAULT_RUN_ID, DEFAULT_RUN_ID)))

initialRun(runParam, rs) ==
  LET found == IF runParam # Null /\ runParam \in Range(rs) THEN runParam ELSE ""
      first == IF rs = <<>> THEN "" ELSE rs[1]
  IN Or(found, Or(DEFAULT_RUN_ID, Or(first, DEFAULT_RUN_ID)))

(* runSel.value after runSel.value = v: "" when no option has the value *)
selectValue(rs, v) == IF v \in Range(rs) THEN v ELSE ""

(* init(): loadRunsList resolved, the handlers are wired, the initial run is
   chosen and the first loadAndDisplayRun is issued *)
InitPage ==
  /\ pc = "boot"
  /\ pc' = "ready"
  /\ LET rs == loadRunsList(index)
         initial == initialRun(url.run, rs)
     IN /\ runs' = rs
        /\ runSel' = selectValue(rs, initial)
        /\ Request(initial)
  /\ lastOp' = Op("init", Null, NaN, FALSE, Absent)
  /\ UNCHANGED <<envVars, sideVars, searchVars, steps, store, filterType, url, dom,
                 domSrc, message, selector, wired, details, timers, scrolled,
                 seedCount, ref>>

(* "change" on #run-selector *)
SelectRun(r) ==
  /\ steps < MaxSteps
  /\ steps' = steps + 1
  /\ pc = "ready"
  /\ r \in Range(runs)
  /\ r # runSel
  /\ runSel' = r
  /\ url' = [url EXCEPT !.run = r]
  /\ Request(r)
  /\ lastOp' = Op("select", r, NaN, FALSE, Absent)
  /\ UNCHANGED <<envVars, sideVars, searchVars, runs, pc, store, filterType, dom, domSrc,
                 message, selector, wired, details, timers, scrolled,
                 seedCount, ref>>

(* "change" on #filter-type *)
ChangeFilter(f) ==
  /\ steps < MaxSteps
  /\ steps' = steps + 1
  /\ pc = "ready"
  /\ f # filterType
  /\ filterType' = f
  /\ Request(runSel)
  /\ lastOp' = Op("filter", runSel, NaN, FALSE, Absent)
  /\ UNCHANGED <<envVars, sideVars, searchVars, runs, pc, store, runSel, url, dom, domSrc,
                 message, selector, wired, details, timers, scrolled,
                 seedCount, ref>>

RefToggle(rf, runId, e, willExpand) ==
  [rf EXCEPT ![runId] = IF willExpand THEN @ \ {e} ELSE @ \cup {e}]

(* the responses the events request of a run can get *)
EventResponses(runId) ==
  { Ok(JsonArray(doc[runId])), Ok(JsonObject), Ok(JsonNull),
    NetworkError, HttpError(JsonArray(doc[runId])), ParseError }

(* loadAndDisplayRun after fetchRunEvents resolved: filter, renderTimeline,
   then the metadata fetch is issued *)
EventsArrive(req, resp) ==
  /\ req \in pending
  /\ req.phase = "events"
  /\ pending' = (pending \ {req}) \cup {[req EXCEPT !.phase = "meta"]}
  /\ LET allEvents == fetchRunEvents(resp)
         events == filterEvents(allEvents, filterType, search)
         runKey == RunKey(current)
         failed == resp.status # "ok" \/ resp.json.kind # "array"
     IN IF ~container
        THEN /\ lastOp' = [Op("render", runKey, NaN, FALSE, store[runKey])
                             EXCEPT !.fail = failed]
             /\ UNCHANGED <<dom, domSrc, message, selector, store, wired, timers,
                            seedCount, ref>>
        ELSE IF events = <<>>
        THEN /\ dom' = <<>>
             /\ domSrc' = req.run
             /\ message' = TRUE
             /\ selector' = <<>>
             /\ lastOp' = [Op("render", runKey, NaN, FALSE, store[runKey])
                             EXCEPT !.fail = failed]
             /\ UNCHANGED <<store, wired, timers, seedCount, ref>>
        ELSE LET r == renderTimeline(events, store, current, url)
                 t == permalinkTarget(url)
                 ref1 == IF r.seeded
                         THEN [ref EXCEPT ![runKey] = @ \cup {LastOf(r.selector)}]
                         ELSE ref
             IN /\ dom' = r.dom
                /\ domSrc' = req.run
                /\ store' = r.store
                /\ message' = FALSE
                /\ selector' = r.selector
                /\ wired' = TRUE
                /\ timers' = timers \cup r.timer
                /\ seedCount' = IF r.seeded
                                THEN [seedCount EXCEPT ![runKey] = @ + 1]
                                ELSE seedCount
                /\ ref' = IF t.found /\ t.ep \in Range(r.selector)
                          THEN RefToggle(ref1, runKey, t.ep, t.expand)
                          ELSE ref1
                /\ lastOp' = Op("render", runKey, Len(events), r.seeded, r.mid)
  /\ UNCHANGED <<envVars, sideVars, searchVars, steps, pc, current, runs, runSel,
                 filterType, url, details, nreq, scrolled>>

(* loadAndDisplayRun after fetchRunMeta resolved: populateRunDetails *)
MetaArrive(req, ok) ==
  /\ req \in pending
  /\ req.phase = "meta"
  /\ pending' = pending \ {req}
  /\ details' = IF ok THEN req.run ELSE "hidden"
  /\ lastOp' = Op("meta", req.run, NaN, ok, Absent)
  /\ UNCHANGED <<envVars, sideVars, searchVars, runs, steps, pc, store, current, runSel,
                 filterType, url, dom, domSrc, message, selector, wired, nreq,
                 timers, scrolled, seedCount, ref>>

(* click (or Enter / Space) on the banner of the i-th section *)
BannerClick(i) ==
  /\ steps < MaxSteps
  /\ steps' = steps + 1
  /\ i \in 1..Len(dom)
  /\ LET sec == dom[i]
         t == toggleEpisodeSection(dom, store, sec.runKey, sec.ep, "undefined")
     IN /\ dom' = t.dom
        /\ store' = t.store
        /\ ref' = RefToggle(ref, sec.runKey, sec.ep, ~sec.expanded)
        /\ lastOp' = Op("click", sec.runKey, sec.ep, ~sec.expanded, Absent)
  /\ UNCHANGED <<envVars, sideVars, searchVars, runs, pc, current, runSel, filterType, url,
                 domSrc, message, selector, wired, details, pending, nreq,
                 timers, scrolled, seedCount>>

(* click on #expand-all (collapsed = FALSE) or #collapse-all (TRUE) *)
SetAll(collapsed) ==
  /\ steps < MaxSteps
  /\ steps' = steps + 1
  /\ wired
  /\ LET runId == RunKey(current)
         t == setAllCollapsed(dom, store, runId, collapsed)
     IN /\ dom' = t.dom
        /\ store' = t.store
        /\ ref' = [ref EXCEPT ![runId] = IF collapsed THEN @ \cup Rendered(dom)
                                         ELSE @ \ Rendered(dom)]
        /\ lastOp' = Op("setAll", runId, NaN, collapsed, Absent)
  /\ UNCHANGED <<envVars, sideVars, searchVars, runs, pc, current, runSel, filterType, url,
                 domSrc, message, selector, wired, details, pending, nreq,
                 timers, scrolled, seedCount>>

Str(e) == IF e = 0 THEN "0" ELSE IF e = 1 THEN "1" ELSE IF e = 2 THEN "2" ELSE "x"

(* click on #jump-episode with the option of episode e selected *)
Jump(e) ==
  /\ steps < MaxSteps
  /\ steps' = steps + 1
  /\ e \in Range(selector)
  /\ LET runId == RunKey(current)
         t == toggleEpisodeSection(dom, store, runId, Number(Str(e)), "true")
     IN /\ dom' = t.dom
        /\ store' = t.store
        /\ ref' = IF e \in Rendered(dom) THEN RefToggle(ref, runId, e, TRUE) ELSE ref
        /\ lastOp' = Op("jump", runId, e, TRUE, Absent)
  /\ url' = [url EXCEPT !.anchor = EpAnchor(Str(e)), !.hashq = <<>>]
  /\ timers' = timers \cup {e}
  /\ UNCHANGED <<envVars, sideVars, searchVars, runs, pc, current, runSel, filterType, domSrc,
                 message, selector, wired, details, pending, nreq, scrolled,
                 seedCount>>

(* a scroll timeout set by expandAndScroll or by the jump handler fires *)
TimerFire(e) ==
  /\ e \in timers
  /\ timers' = timers \ {e}
  /\ scrolled' = IF e \in Rendered(dom) THEN e ELSE scrolled
  /\ lastOp' = Op("timer", Null, e, e \in Rendered(dom), Absent)
  /\ UNCHANGED <<envVars, sideVars, searchVars, runs, steps, pc, store, current, runSel,
                 filterType, url, dom, domSrc, message, selector, wired,
                 details, pending, nreq, seedCount, ref>>

(* "input" on #search: the pending timeout is cleared and a new one set.
   A timeout runs when it is due, so no input arrives while one is due. *)
InputNoRestart(text) ==
  /\ pc = "ready"
  /\ typing.inputs < MaxInputs
  /\ searchTimer # 0
  /\ text # search
  /\ search' = text
  /\ searchTimer' = IF searchTimer = NoTimer THEN SEARCH_DELAY ELSE searchTimer
  /\ typing' = [typing EXCEPT !.inputs = @ + 1, !.since = 0,
                              !.bursts = IF searchTimer = NoTimer THEN @ + 1 ELSE @]
  /\ lastOp' = Op("input", runSel, NaN, searchTimer # NoTimer, Absent)
  /\ UNCHANGED <<envVars, sideVars, runs, steps, pc, store, current, runSel, filterType,
                 url, dom, domSrc, message, selector, wired, details, pending,
                 nreq, timers, scrolled, seedCount, ref>>

Input(text) ==
  /\ pc = "ready"
  /\ typing.inputs < MaxInputs
  /\ searchTimer # 0
  /\ text # search
  /\ search' = text
  /\ searchTimer' = SEARCH_DELAY
  /\ typing' = [typing EXCEPT !.inputs = @ + 1, !.since = 0,
                              !.bursts = IF searchTimer = NoTimer THEN @ + 1 ELSE @]
  /\ lastOp' = Op("input", runSel, NaN, searchTimer # NoTimer, Absent)
  /\ UNCHANGED <<envVars, sideVars, runs, steps, pc, store, current, runSel, filterType,
                 url, dom, domSrc, message, selector, wired, details, pending,
                 nreq, timers, scrolled, seedCount, ref>>

(* time passes while the search timeout is pending *)
Tick ==
  /\ searchTimer > 0
  /\ searchTimer' = IF searchTimer > TickMs THEN searchTimer - TickMs ELSE 0
  /\ typing' = [typing EXCEPT !.since = IF @ + TickMs < SEARCH_DELAY THEN @ + TickMs
                                        ELSE SEARCH_DELAY]
  /\ UNCHANGED <<envVars, sideVars, runs, search, steps, pc, store, current, runSel,
                 filterType, url, dom, domSrc, message, selector, wired, details,
                 pending, nreq, timers, scrolled, seedCount, ref, lastOp>>

(* the search timeout runs: loadAndDisplayRun(runSel.value) *)
SearchFire ==
  /\ searchTimer = 0
  /\ searchTimer' = NoTimer
  /\ typing' = [typing EXCEPT !.loads = @ + 1]
  /\ Request(runSel)
  /\ lastOp' = Op("search", runSel, NaN, FALSE, Absent)
  /\ UNCHANGED <<envVars, sideVars, runs, search, steps, pc, store, runSel, filterType,
                 url, dom, domSrc, message, selector, wired, details, timers,
                 scrolled, seedCount, ref>>

NextLoad ==
  \/ InitPage
  \/ \E req \in pending : \E resp \in EventResponses(req.run) : EventsArrive(req, resp)
  \/ \E req \in pending, ok \in BOOLEAN : MetaArrive(req, ok)
  \/ \E e \in timers : TimerFire(e)

NextUser ==
  \/ \E r \in Runs : SelectRun(r)
  \/ \E f \in FilterTypes : ChangeFilter(f)
  \/ \E i \in 1..Len(dom) : BannerClick(i)
  \/ \E c \in BOOLEAN : SetAll(c)
  \/ \E e \in Range(selector) : Jump(e)

Next == NextLoad \/ NextUser

Spec == Init /\ [][Next]_vars

(* Page loads over every bounded URL, without further user action *)
LinkUrls ==
  {Url(Null, q, a, h) : q \in SeqsUpTo(Pairs, MaxQueryParams),
                        a \in Anchors \ {NoHash}, h \in SeqsUpTo(Pairs, MaxHashParams)}
  \cup {Url(Null, q, NoHash, <<>>) : q \in SeqsUpTo(Pairs, MaxQueryParams)}

InitLink ==
  /\ doc = MainDoc
  /\ store \in InitStores
  /\ url \in LinkUrls
  /\ InitEnv
  /\ InitForm
  /\ InitCommon
  /\ InitSide

SpecLink == InitLink /\ [][NextLoad]_vars

(* Page loads over every bounded events document *)
EventShapes == {Ev(0, e, t, "caught") : e \in {NoEp} \cup Episodes, t \in {0, 2, 10}}

WithIds(evs) == [i \in 1..Len(evs) |-> [evs[i] EXCEPT !.id = i]]

InitSort ==
  /\ \E evs \in SeqsUpTo(EventShapes, MaxEvents) :
        doc = [r \in Runs |-> IF r = DEFAULT_RUN_ID THEN WithIds(evs) ELSE <<>>]
  /\ store = St(Absent, Absent)
  /\ url \in {Url(Null, <<>>, NoHash, <<>>), Url(Null, <<>>, EpAnchor("1"), <<>>)}
  /\ InitEnv
  /\ InitForm
  /\ InitCommon
  /\ InitSide

SpecSort == InitSort /\ [][NextLoad]_vars

(* Searching: a run with described events, the search field in use *)
EvSearch(i, e, t, ty, f) == [k \in DOMAIN Ev(i, e, t, ty) |->
                              IF k \in DOMAIN f THEN f[k] ELSE Ev(i, e, t, ty)[k]]

SearchDoc ==
  [r \in Runs |->
     IF r = DEFAULT_RUN_ID
     THEN << EvSearch(1, 1, 2, "Caught", [species |-> "Gift", location |-> "Cave"]),
             EvSearch(2, 1, 10, "fainted", [notes |-> "Luc"]),
             EvSearch(3, 2, 2, "caught", [nickname |-> "a", method |-> "Gift"]),
             EvSearch(4, 2, 10, "caught", [obtained |-> "Gift", date |-> "d2"]),
             EvSearch(5, 3, 0, "end", [notes |-> "Cave", date |-> "d3"]) >>
     ELSE <<EvSearch(1, 0, 0, "caught", [badge |-> "Cave"])>>]

SearchTexts == {"", "LUC ", "gift", "cave"}

InitSearch ==
  /\ doc = SearchDoc
  /\ store = St(Absent, Absent)
  /\ url = UrlEp2Safe
  /\ filterType \in FilterTypes
  /\ search \in {"", "gift"}
  /\ InitEnv
  /\ InitCommon
  /\ InitSide

NextSearch ==
  \/ \E text \in SearchTexts : Input(text)
  \/ Tick
  \/ SearchFire

SpecSearch == InitSearch /\ [][NextLoad \/ NextSearch]_vars

(* time passes and a due timeout is run by the event loop *)
SpecSearchFair == SpecSearch /\ WF_vars(Tick) /\ WF_vars(SearchFire)

(* The page in use while the storage quota runs out *)
StorageFills ==
  /\ ~quota
  /\ quota' = TRUE
  /\ lastOp' = Op("storage", Null, NaN, FALSE, Absent)
  /\ UNCHANGED <<doc, index, container, sideVars, searchVars, runs, steps, pc, store,
                 current, runSel, filterType, url, dom, domSrc, message,
                 selector, wired, details, pending, nreq, timers, scrolled,
                 seedCount, ref>>

InitQuota ==
  /\ doc = MainDoc
  /\ store = St(Absent, List(<<2, 1>>))
  /\ url = UrlEp2Safe
  /\ InitEnv
  /\ InitForm
  /\ InitCommon
  /\ InitSide

SpecQuota == InitQuota /\ [][Next \/ StorageFills]_vars

(* Page loads over the environments: index responses, run parameters, pages
   without #timeline, stored values of any shape *)
IndexResponses ==
  { MainIndex, Ok(JsonIndex(<<"run-01">>)), Ok(JsonIndex(<<>>)), Ok(JsonObject),
    NetworkError, HttpError(JsonIndex(<<"run-01">>)), ParseError }

RunParams == {Null, "", "run-01", "run-02", "run-09"}

EnvStores ==
  { St(Absent, Absent),
    St(BadJson, NotList),
    St(List(<<>>), List(<<JStr(2), 2, JWord>>)),
    St(List(<<JStr(1), JNull>>), List(<<2, 1>>)) }

EnvUrls ==
  {Url(r, <<>>, NoHash, <<>>) : r \in RunParams}
  \cup {Url(r, <<>>, EpAnchor(v), <<P("spoiler", "0")>>) : r \in RunParams, v \in {"1", "2"}}

InitEnvs ==
  /\ doc = MainDoc
  /\ index \in IndexResponses
  /\ quota = FALSE
  /\ container \in BOOLEAN
  /\ store \in EnvStores
  /\ url \in EnvUrls
  /\ InitForm
  /\ InitCommon
  /\ InitSide

SpecEnv == InitEnvs /\ [][NextLoad]_vars

(* Ribbons: page loads over events with every combination of the failed,
   illegal and special markings *)
RibbonEvents ==
  { EvSearch(1, 1, 2, ty, [special |-> sp, failed |-> f, illegal |-> g, nickname |-> n]) :
      ty \in {"caught", "failed", "illegal"},
      sp \in { Special(k, "") : k \in {"undefined", "null", "false", "true", "number"} }
            \cup { Special(k, l) : k \in {"string", "object"}, l \in {"", "Gift"} },
      f \in BOOLEAN, g \in BOOLEAN, n \in {"", "a"} }

InitRibbon ==
  /\ \E ev \in RibbonEvents :
        doc = [r \in Runs |-> IF r = DEFAULT_RUN_ID THEN <<ev>> ELSE <<>>]
  /\ store = St(Absent, Absent)
  /\ url = Url(Null, <<>>, EpAnchor("1"), <<>>)
  /\ InitEnv
  /\ InitForm
  /\ InitCommon
  /\ InitSide

SpecRibbon == InitRibbon /\ [][NextLoad]_vars

(* Copying permalinks: page loads over every bounded query string, then clicks
   on the permalink buttons of the rendered sections *)
MaxNameLen == 3       \* characters in a generated species name
MaxErrors == 3        \* error events delivered to one image

(* click on the .permalink button of section i, with or without Shift: the
   link is the page's origin, path and query string followed by the hash;
   stopPropagation keeps the click from the banner's listener *)
PermalinkClick(i, shift) ==
  /\ steps < MaxSteps
  /\ steps' = steps + 1
  /\ i \in 1..Len(dom)
  /\ LET ep == dom[i].ep
         toCopy == Url(url.run, url.search, EpAnchor(Str(ep)),
                       IF shift THEN <<P("spoiler", "0")>> ELSE <<>>)
     IN /\ clipboard' = [link |-> toCopy, ep |-> ep, shift |-> shift]
        /\ lastOp' = Op("permalink", dom[i].runKey, ep, shift, Absent)
  /\ UNCHANGED <<envVars, img, searchVars, runs, pc, store, current, runSel,
                 filterType, url, dom, domSrc, message, selector, wired, details,
                 pending, nreq, timers, scrolled, seedCount, ref>>

InitCopy ==
  /\ doc = MainDoc
  /\ store \in InitStores
  /\ url \in {Url(Null, q, NoHash, <<>>) : q \in SeqsUpTo(Pairs, MaxQueryParams)}
  /\ InitEnv
  /\ InitForm
  /\ InitCommon
  /\ InitSide

SpecCopy ==
  InitCopy /\ [][NextLoad
                 \/ \E i \in 1..Len(dom), shift \in BOOLEAN : PermalinkClick(i, shift)]_vars

(* Images: the sprite or badge image created for a name, and the load and
   error events the browser delivers to it *)
pageVars == <<pc, doc, index, store, quota, container, current, runs, runSel,
              filterType, search, searchTimer, typing, url, dom, domSrc, message,
              selector, wired, details, pending, nreq, timers, scrolled,
              seedCount, steps, ref, lastOp, clipboard>>

(* createEventElement: the <img> of a species (or badge) name *)
CreateImage(badge) ==
  /\ ~img.made
  /\ LET u == IF badge THEN badgeUrlFor(img.name) ELSE spriteUrlFor(img.name)
         el0 == IF Falsy(u) THEN NewImg ELSE [NewImg EXCEPT !.src = u]
         el == attachPlaceholderOnErrorOrNull(el0, img.name, u)
     IN img' = [img EXCEPT !.made = TRUE, !.url = u, !.el = el,
                           !.loading = TRUE,
                           !.sets = IF el.src.kind = "data" THEN 1 ELSE 0]
  /\ UNCHANGED pageVars

(* the load of the current src succeeds *)
ImageLoads ==
  /\ img.made
  /\ img.loading
  /\ img' = [img EXCEPT !.loading = FALSE]
  /\ UNCHANGED pageVars

(* the load of the current src fails: the error event runs onerror if set *)
ImageError ==
  /\ img.made
  /\ img.loading
  /\ img.errors < MaxErrors
  /\ img' = IF img.el.onerror
            THEN [img EXCEPT !.el = onerrorHandler(img.el), !.loading = TRUE,
                             !.sets = img.sets + 1, !.errors = img.errors + 1]
            ELSE [img EXCEPT !.loading = FALSE, !.errors = img.errors + 1]
  /\ UNCHANGED pageVars

MrMime == <<"M", "r", ".", " ", "M", "i", "m", "e">>

SpriteNames ==
  {JsNull, JsString(MrMime)}
  \cup {JsString(cs) : cs \in SeqsUpTo({"M", "r", "2", ".", " ", "-", "'", "rsquo"},
                                        MaxNameLen)}

InitSprite ==
  /\ doc = MainDoc
  /\ store = St(Absent, Absent)
  /\ url = UrlPlain
  /\ InitEnv
  /\ InitForm
  /\ InitCommon
  /\ clipboard = NoClip
  /\ \E n \in SpriteNames : img = [NoImg EXCEPT !.name = n]

SpecSprite ==
  InitSprite /\ [][(\E badge \in BOOLEAN : CreateImage(badge))
                   \/ ImageLoads \/ ImageError]_vars

----------------------------------------------------------------------------
(* Vocabulary of the properties *)
Sec(dm, e) == dm[FindSection(dm, e)]
Collapsed(dm, e) == ~Sec(dm, e).expanded /\ Sec(dm, e).hidden
Expanded(dm, e) == Sec(dm, e).expanded /\ ~Sec(dm, e).hidden

(* a renderTimeline on a non-empty list has just completed *)
AfterRender == lastOp.kind = "render" /\ lastOp.ep # NaN

KeyIdx(ps, k) == {i \in 1..Len(ps) : ps[i].k = k}
Least(S) == CHOOSE i \in S : \A j \in S : i <= j
Greatest(S) == CHOOSE i \in S : \A j \in S : j <= i
QueryVal(k) ==
  IF KeyIdx(url.search, k) = {} THEN Null ELSE url.search[Least(KeyIdx(url.search, k))].v
HashVal(k) ==
  IF KeyIdx(url.hashq, k) = {} THEN Null ELSE url.hashq[Greatest(KeyIdx(url.hashq, k))].v
MergedVal(k) == IF HashVal(k) # Null THEN HashVal(k) ELSE QueryVal(k)
AnchorIsEpisode == url.anchor.kind = "episode" /\ IsDigits(url.anchor.val)
StoredSet(v) == IF v.kind = "list" THEN Range(v.arr) ELSE {}

(* C1: after a render with hash #episode-N?spoiler=0 and N rendered, section N
   is collapsed, N is in the run's persisted set and a scroll to N is
   scheduled, which scrolls to N when it fires; with hash #episode-N and no
   spoiler parameter anywhere, section N is expanded and N is not persisted. *)
C1_PermalinkOnLoad ==
  /\ \A n \in Episodes :
       (AfterRender /\ n \in Rendered(dom) /\ url.anchor = EpAnchor(Str(n))) =>
         /\ (url.hashq = <<P("spoiler", "0")>>) =>
              /\ Collapsed(dom, n)
              /\ n \in Members(store, lastOp.run)
              /\ n \in timers
         /\ (url.hashq = <<>> /\ QueryVal("spoiler") = Null) =>
              /\ Expanded(dom, n)
              /\ n \notin Members(store, lastOp.run)
  /\ (lastOp.kind = "timer" /\ lastOp.ep \in Rendered(dom)) => scrolled = lastOp.ep

C1_Witness ==
  /\ AfterRender
  /\ url.anchor = EpAnchor("2")
  /\ url.hashq = <<P("spoiler", "0")>>
  /\ 2 \in Rendered(dom)
  /\ 2 \notin StoredSet(lastOp.mid)
  /\ Collapsed(dom, 2)
  /\ 2 \in Members(store, lastOp.run)

(* C2: in every state, two banner toggles in a row of a rendered section
   leave the episode's membership in the persisted set of the section's run
   as it was. *)
C2_ToggleTwiceRestores ==
  \A i \in 1..Len(dom) :
    LET sec == dom[i]
        t1 == toggleEpisodeSection(dom, store, sec.runKey, sec.ep, "undefined")
        t2 == toggleEpisodeSection(t1.dom, t1.store, sec.runKey, sec.ep, "undefined")
    IN (sec.ep \in Members(t2.store, sec.runKey)) <=> (sec.ep \in Members(store, sec.runKey))

(* C3: a render of a non-empty list seeds by the presence of the key: with no
   stored value the highest rendered episode alone is stored at once; with any
   stored value, the empty list included, nothing is written and the sections
   show the stored set. *)
C3_SeedByPresence ==
  [][ (lastOp'.kind = "render" /\ lastOp'.ep # NaN) =>
        LET rk == lastOp'.run
            top == Greatest(Range(selector'))
            t == permalinkTarget(url)
        IN /\ (store[rk] = Absent) => (lastOp'.flag /\ lastOp'.mid = List(<<top>>))
           /\ (store[rk] # Absent) => (~lastOp'.flag /\ lastOp'.mid = store[rk])
           /\ \A i \in 1..Len(dom') :
                (~(t.found /\ t.ep = dom'[i].ep)) =>
                  (dom'[i].expanded <=> dom'[i].ep \notin StoredSet(lastOp'.mid))
    ]_vars

C3_Witness ==
  /\ AfterRender
  /\ ~lastOp.flag
  /\ lastOp.mid = List(<<>>)
  /\ \A i \in 1..Len(dom) : dom[i].expanded

(* C4: for every run the default seeding is taken by at most one render. *)
C4_SeedOnce == \A r \in Runs : seedCount[r] <= 1

C4_Witness ==
  /\ AfterRender
  /\ ~lastOp.flag
  /\ seedCount[lastOp.run] = 1
  /\ dom[Len(dom)].expanded
  /\ steps > 0

(* C5: once every fetch has completed, the rendered timeline, the store its
   sections write to and the run-details panel belong to the run requested
   last. *)
C5_StaleIgnored ==
  (pc = "ready" /\ pending = {}) =>
    /\ domSrc = current
    /\ \A i \in 1..Len(dom) : dom[i].runKey = current
    /\ details \in {current, "hidden"}

(* C6: setAllCollapsed(runId, c) leaves every rendered section collapsed iff
   c, every rendered episode in the persisted set of runId iff c, and the
   membership of unrendered episodes unchanged. *)
C6_SetAllCollapsed ==
  [][ (lastOp'.kind = "setAll") =>
        LET r == lastOp'.run
            c == lastOp'.flag
        IN /\ \A i \in 1..Len(dom') :
                /\ dom'[i].expanded = ~c
                /\ dom'[i].hidden = c
                /\ (dom'[i].ep \in Members(store', r)) <=> c
           /\ \A e \in Episodes \ Rendered(dom') :
                (e \in Members(store', r)) <=> (e \in Members(store, r))
    ]_vars

C6_Witness ==
  /\ lastOp.kind = "setAll"
  /\ lastOp.flag
  /\ dom # <<>>
  /\ Rendered(dom) \subseteq Members(store, lastOp.run)
  /\ Members(store, lastOp.run) \ Rendered(dom) # {}

(* C7: the persisted set of every run equals the set obtained by applying
   the operations one after the other in the order they ran. *)
C7_NoLostUpdate == \A r \in Runs : Members(store, r) = ref[r]

C7_Witness ==
  /\ steps = MaxSteps
  /\ lastOp.kind = "setAll"
  /\ ~lastOp.flag
  /\ ref[lastOp.run] # {}
  /\ seedCount[lastOp.run] = 1

(* C8: after a render the sections are in strictly ascending episode order,
   every event is in the one section of its episode, and within a section the
   timestamps ascend numerically. *)
C8_SortedSections ==
  AfterRender =>
    LET evs == doc[domSrc]
        Ids(i) == {dom[i].items[j].id : j \in 1..Len(dom[i].items)}
    IN /\ \A i, j \in 1..Len(dom) : i < j => dom[i].ep < dom[j].ep
       /\ \A k \in 1..Len(evs) :
            \E i \in 1..Len(dom) :
              /\ dom[i].ep = (IF evs[k].episode = NoEp THEN 0 ELSE evs[k].episode)
              /\ k \in Ids(i)
              /\ \A j \in 1..Len(dom) : j # i => k \notin Ids(j)
       /\ \A i \in 1..Len(dom) :
            \A a, b \in 1..Len(dom[i].items) :
              a < b => evs[dom[i].items[a].id].ts <= evs[dom[i].items[b].id].ts

C8_Witness ==
  /\ AfterRender
  /\ Len(doc[domSrc]) = 3
  /\ doc[domSrc][1].episode = 2
  /\ doc[domSrc][2].episode = 1
  /\ doc[domSrc][2].ts = 10
  /\ doc[domSrc][3].episode = 1
  /\ doc[domSrc][3].ts = 2
  /\ Len(dom) = 2
  /\ dom[1].ep = 1
  /\ dom[1].items[1].id = 3

(* C9: with an anchor episode-N and a query suffix in the hash, the spoiler
   value of the hash decides when the hash has one, whatever the query string
   says; the query string's value decides otherwise. *)
C9_HashParamsWin ==
  \A n \in Episodes :
    (AfterRender /\ AnchorIsEpisode /\ Number(url.anchor.val) = n
       /\ n \in Rendered(dom) /\ url.hashq # <<>>) =>
      /\ (HashVal("spoiler") # Null) => (Collapsed(dom, n) <=> HashVal("spoiler") = "0")
      /\ (HashVal("spoiler") = Null) => (Collapsed(dom, n) <=> QueryVal("spoiler") = "0")
      /\ Collapsed(dom, n) \/ Expanded(dom, n)

C9_Witness ==
  /\ AfterRender
  /\ url.anchor = EpAnchor("2")
  /\ QueryVal("spoiler") = "0"
  /\ url.hashq = <<P("spoiler", "1")>>
  /\ 2 \in Rendered(dom)
  /\ Expanded(dom, 2)

(* C10 as claimed: without an anchor episode-N, target and visibility come
   from the episode and spoiler parameters of the merged set, hash first. *)
C10_FallbackUsesMerged ==
  (AfterRender /\ ~AnchorIsEpisode) =>
    LET epi == MergedVal("episode")
        sp == MergedVal("spoiler")
    IN (epi # Null /\ Number(epi) # NaN) =>
         /\ Number(epi) \in timers
         /\ Number(epi) \in Rendered(dom) => (Collapsed(dom, Number(epi)) <=> sp = "0")

(* C10 amended: without an anchor episode-N, target and visibility come from
   the episode and spoiler parameters of the page's query string alone; the
   parameters of the hash are not consulted, and without a numeric episode
   parameter there nothing is toggled or scrolled. *)
C10_FallbackUsesQuery ==
  (AfterRender /\ ~AnchorIsEpisode) =>
    LET epi == QueryVal("episode")
        sp == QueryVal("spoiler")
    IN IF epi # Null /\ Number(epi) # NaN
       THEN /\ timers = {Number(epi)}
            /\ Number(epi) \in Rendered(dom) =>
                 /\ Collapsed(dom, Number(epi)) <=> sp = "0"
                 /\ Number(epi) \in Members(store, lastOp.run) <=> sp = "0"
       ELSE /\ timers = {}
            /\ store[lastOp.run] = lastOp.mid
            /\ \A i \in 1..Len(dom) :
                 dom[i].expanded <=> dom[i].ep \notin StoredSet(lastOp.mid)

C10_Witness ==
  /\ AfterRender
  /\ url.anchor = OtherAnchor
  /\ url.search = <<P("episode", "2"), P("spoiler", "0")>>
  /\ url.hashq = <<P("spoiler", "1")>>
  /\ Collapsed(dom, 2)
  /\ timers = {2}

(* the events document the last render's request fetched *)
Fetched == IF lastOp.fail THEN <<>> ELSE doc[domSrc]

(* the search text as the search uses it *)
Query == toLowerCase(trim(Chars(search)))

Contains(w, q) == includes(toLowerCase(Chars(w)), q)

PassesType(e) == filterType = "all" \/ Lower(e.type) = Lower(filterType)

RenderedIds == UNION {{dom[i].items[j].id : j \in 1..Len(dom[i].items)} : i \in 1..Len(dom)}

(* C11: after loadAndDisplayRun rendered, the rendered events are exactly the
   fetched events whose lower-cased type equals the lower-cased filter (or the
   filter is "all") and, when the trimmed search text is non-empty, whose
   species, nickname, notes, type, location (the first non-empty of location,
   obtained, obtainedVia) or badge contains it case-insensitively; the
   sections are exactly the episodes of these events. *)
C11_FilteredEvents ==
  (lastOp.kind = "render") =>
    LET Keeps(e) ==
          /\ PassesType(e)
          /\ Query # <<>> =>
               \E w \in {e.species, e.nickname, e.notes, e.type,
                          Or(e.location, Or(e.obtained, e.obtainedVia)), e.badge} :
                 Contains(w, Query)
        kept == {k \in 1..Len(Fetched) : Keeps(Fetched[k])}
    IN /\ RenderedIds = {Fetched[k].id : k \in kept}
       /\ Rendered(dom) = {Ep(Fetched[k]) : k \in kept}

C11_Witness ==
  /\ lastOp.kind = "render"
  /\ search = "LUC "
  /\ filterType = "all"
  /\ Len(Fetched) = 5
  /\ Fetched[2].notes = "Luc"
  /\ Len(dom) = 1
  /\ dom[1].ep = 1
  /\ Len(dom[1].items) = 1
  /\ dom[1].items[1].id = 2

(* C12 as claimed: after a render with a non-empty search text, every fetched
   event that passes the type filter and whose location (the first non-empty
   of location, obtained, obtainedVia, method, fromLocation: the value its
   card shows) contains the text is rendered. *)
C12_SearchByLocation ==
  (lastOp.kind = "render" /\ Query # <<>>) =>
    \A k \in 1..Len(Fetched) :
      (PassesType(Fetched[k]) /\ Contains(cardLocation(Fetched[k]), Query)) =>
        Fetched[k].id \in RenderedIds

(* the fetched event an item was rendered for *)
EventOf(item) == Fetched[item.id]

IsRunEnd(e) == Lower(e.type) \in {"run_end", "runended", "run_ended", "end"}

RunEndAsBanner ==
  \A i \in 1..Len(dom) : \A j \in 1..Len(dom[i].items) :
    /\ Ep(EventOf(dom[i].items[j])) = dom[i].ep
    /\ IsRunEnd(EventOf(dom[i].items[j])) <=> dom[i].items[j].kind = "run-end-banner"
    /\ ~IsRunEnd(EventOf(dom[i].items[j])) <=> dom[i].items[j].kind = "event"

(* C13 as claimed: after a render every run-end event is a run-end banner in
   its episode's section and never a card, every section has an ordinary
   event, and the section's date label is the date of its first ordinary
   event. *)
C13_RunEndNotCounted ==
  (lastOp.kind = "render") =>
    /\ RunEndAsBanner
    /\ \A i \in 1..Len(dom) :
         LET ordinary == SelectSeq(dom[i].items, LAMBDA it : ~IsRunEnd(EventOf(it)))
         IN /\ ordinary # <<>>
            /\ dom[i].date = EventOf(ordinary[1]).date

(* C13 amended: after a render every run-end event is a run-end banner in its
   episode's section and never a card; it is grouped with the other events of
   its episode, so every rendered episode has a section even when its only
   events are run-end events, and the section's date label is the date of the
   first event of the episode, run-end events included. *)
C13_RunEndGrouped ==
  (lastOp.kind = "render") =>
    /\ RunEndAsBanner
    /\ \A k \in 1..Len(Fetched) :
         (IsRunEnd(Fetched[k]) /\ PassesType(Fetched[k]) /\ Query = <<>>) =>
           \E i \in 1..Len(dom) : \E j \in 1..Len(dom[i].items) :
             /\ dom[i].ep = Ep(Fetched[k])
             /\ dom[i].items[j] = [id |-> Fetched[k].id, kind |-> "run-end-banner",
                                   location |-> "", ribbon |-> ""]
    /\ \A i \in 1..Len(dom) :
         /\ dom[i].items # <<>>
         /\ dom[i].date = EventOf(dom[i].items[1]).date

C13_Witness ==
  /\ lastOp.kind = "render"
  /\ Len(dom) = 3
  /\ dom[3].ep = 3
  /\ dom[3].date = "d3"
  /\ Len(dom[3].items) = 1
  /\ dom[3].items[1].kind = "run-end-banner"
  /\ Fetched[dom[3].items[1].id].type = "end"

(* C14: the run init() displays is the run query parameter when it equals
   the id of a run of the loaded list; otherwise the configured default run
   id; otherwise (no default configured) the first run of the loaded list. *)
C14_InitialRun ==
  (lastOp.kind = "init") =>
    LET expected ==
          IF \E i \in 1..Len(runs) : runs[i] = url.run THEN url.run
          ELSE IF DEFAULT_RUN_ID # "" THEN DEFAULT_RUN_ID
          ELSE runs[1]
    IN /\ current = expected
       /\ pending = {[id |-> 1, run |-> expected, phase |-> "events"]}

C14_Witness ==
  /\ lastOp.kind = "init"
  /\ url.run = "run-09"
  /\ runs = <<"run-01">>
  /\ current = DEFAULT_RUN_ID
  /\ runSel = ""

(* C15: in the state a render leaves, rendering the same list again for the
   same run and URL yields the same sections in the same expanded/collapsed
   states, the same selector entries and the same stored values. *)
C15_RenderIdempotent ==
  (lastOp.kind = "render" /\ container) =>
    LET events == filterEvents(Fetched, filterType, search) IN
    IF events = <<>>
    THEN dom = <<>> /\ selector = <<>> /\ message
    ELSE LET again == renderTimeline(events, store, current, url)
         IN /\ again.dom = dom
            /\ again.selector = selector
            /\ again.store = store
            /\ ~again.seeded
            /\ ~message

C15_Witness ==
  /\ AfterRender
  /\ lastOp.flag
  /\ url.anchor = EpAnchor("2")
  /\ url.hashq = <<>>
  /\ url.search = <<>>
  /\ Len(dom) = 2
  /\ Expanded(dom, 2)
  /\ store[lastOp.run] = List(<<>>)
  /\ lastOp.mid = List(<<2>>)

FailedResponses ==
  {NetworkError, ParseError, HttpError(JsonObject)} \cup {HttpError(JsonArray(doc[r])) : r \in Runs}

(* C16: for a rejected fetch, a non-success status and an unparseable body
   fetchJson yields null; for these and for a document that is not a sequence
   fetchRunEvents yields the empty sequence; and the render of a failed
   events fetch leaves no section, the message shown and the selector empty,
   and every stored value as it was. *)
C16_FetchFailureEmptyState ==
  [][ /\ \A resp \in FailedResponses :
           fetchJson(resp) = JsonNull /\ fetchRunEvents(resp) = <<>>
      /\ \A resp \in {Ok(JsonObject), Ok(JsonNull)} : fetchRunEvents(resp) = <<>>
      /\ (lastOp'.kind = "render" /\ lastOp'.fail) =>
           /\ store' = store
           /\ container => (dom' = <<>> /\ message' /\ selector' = <<>>)
    ]_vars

C16_Witness ==
  /\ lastOp.kind = "render"
  /\ lastOp.fail
  /\ container
  /\ dom = <<>>
  /\ message
  /\ selector = <<>>
  /\ store[lastOp.run] = List(<<2, 1>>)

(* C17: loadCollapsedMap yields the empty set for an absent key, a value that
   is not JSON and JSON that is not a list, and for a stored list the set of
   the numbers its elements convert to, without duplicates; a render that
   finds the key present and resolves no permalink has loaded the set and
   left the stored value as it was. *)
C17_LoadTolerant ==
  [][ /\ \A r \in Runs :
           LET v == store[r]
               set == loadCollapsedMap(store, r)
           IN /\ v.kind # "list" => set = <<>>
              /\ v.kind = "list" =>
                   /\ Range(set) = {NumberOf(v.arr[i]) : i \in 1..Len(v.arr)}
                   /\ Cardinality(Range(set)) = Len(set)
      /\ (lastOp'.kind = "render" /\ lastOp'.ep # NaN
            /\ store[lastOp'.run].kind # "absent") =>
           /\ lastOp'.mid = store[lastOp'.run]
           /\ ~permalinkTarget(url).found =>
                /\ store' = store
                /\ \A i \in 1..Len(dom') :
                     dom'[i].expanded <=> dom'[i].ep \notin Members(store, lastOp'.run)
    ]_vars

C17_Witness ==
  /\ AfterRender
  /\ url.anchor = NoHash
  /\ store[lastOp.run] = List(<<JStr(2), 2, JWord>>)
  /\ lastOp.mid = store[lastOp.run]
  /\ Len(dom) = 2
  /\ Collapsed(dom, 2)
  /\ Expanded(dom, 0)

(* C19: toggleEpisodeSection for an episode without a rendered section
   returns the sections and the stored values as they are, whatever the run
   and the expand argument (the jump action toggles with expand true); a
   render whose permalink aims at an episode without a section leaves the
   sections as built from the persisted set and the stored values as they
   were after seeding; a render on a page without #timeline changes nothing. *)
C19_AbsentTargetNoOp ==
  [][ /\ \A e \in (Episodes \cup {NaN}) \ Rendered(dom) :
           \A r \in Runs : \A x \in {"true", "false", "undefined"} :
             toggleEpisodeSection(dom, store, r, e, x) = [dom |-> dom, store |-> store]
      /\ (lastOp'.kind = "render" /\ lastOp'.ep # NaN /\ permalinkTarget(url).found
            /\ permalinkTarget(url).ep \notin Rendered(dom')) =>
           /\ store'[lastOp'.run] = lastOp'.mid
           /\ \A r \in Runs \ {lastOp'.run} : store'[r] = store[r]
           /\ \A i \in 1..Len(dom') :
                /\ dom'[i].expanded <=> dom'[i].ep \notin Members(store', lastOp'.run)
                /\ dom'[i].hidden <=> ~dom'[i].expanded
      /\ (lastOp'.kind = "render" /\ ~container) =>
           UNCHANGED <<dom, store, message, selector, wired, timers>>
    ]_vars

C19_Witness ==
  /\ AfterRender
  /\ url.anchor = EpAnchor("1")
  /\ url.hashq = <<P("spoiler", "0")>>
  /\ 1 \notin Rendered(dom)
  /\ Len(dom) = 2
  /\ 1 \in timers
  /\ store[lastOp.run] = lastOp.mid
  /\ lastOp.mid = List(<<2>>)

(* C18: while setItem throws, every handler leaves every stored value as it
   was and still completes: a banner click flips its section, expand-all and
   collapse-all set every section, the jump expands its section, and a render
   builds the sections, with the default-seeded episode collapsed although
   the seed could not be stored, and resolves the permalink. *)
C18_SaveFailureSwallowed ==
  [][ quota =>
        /\ store' = store
        /\ lastOp'.kind = "click" =>
             /\ Rendered(dom') = Rendered(dom)
             /\ Sec(dom', lastOp'.ep).expanded = ~Sec(dom, lastOp'.ep).expanded
             /\ Sec(dom', lastOp'.ep).hidden = Sec(dom, lastOp'.ep).expanded
        /\ lastOp'.kind = "setAll" =>
             \A i \in 1..Len(dom') :
               dom'[i].expanded = ~lastOp'.flag /\ dom'[i].hidden = lastOp'.flag
        /\ lastOp'.kind = "jump" => Expanded(dom', lastOp'.ep)
        /\ (lastOp'.kind = "render" /\ lastOp'.ep # NaN) =>
             LET rk == lastOp'.run
                 t == permalinkTarget(url)
                 seed == IF store[rk] = Absent THEN {Greatest(Range(selector'))} ELSE {}
             IN /\ dom' # <<>>
                /\ selector' = [i \in 1..Len(dom') |-> dom'[i].ep]
                /\ wired'
                /\ \A i \in 1..Len(dom') :
                     IF t.found /\ t.ep = dom'[i].ep
                     THEN dom'[i].expanded = t.expand
                     ELSE dom'[i].expanded <=>
                            dom'[i].ep \notin (Members(store, rk) \cup seed)
    ]_vars

C18_Witness ==
  /\ quota
  /\ lastOp.kind = "setAll"
  /\ lastOp.flag
  /\ Len(dom) = 2
  /\ \A i \in 1..Len(dom) : Collapsed(dom, dom[i].ep)
  /\ store[lastOp.run] = List(<<2>>)
  /\ 1 \in Rendered(dom)

(* C20: a burst is a maximal series of search inputs each made while the
   timeout set by the previous one is pending, that is less than 240 ms after
   it.  An input issues no loadAndDisplayRun; the timeout issues one only
   when 240 ms have passed since the last input, and then none is pending; so
   the loads issued for the search field number the bursts completed; and
   every burst is followed by its load. *)
C20_Debounced ==
  /\ [][ /\ typing.loads + (IF searchTimer = NoTimer THEN 0 ELSE 1) = typing.bursts
         /\ lastOp'.kind = "input" => (nreq' = nreq /\ pending' = pending)
         /\ typing'.loads # typing.loads =>
              /\ typing.since = SEARCH_DELAY
              /\ typing'.loads = typing.loads + 1
              /\ searchTimer' = NoTimer
              /\ nreq' = nreq + 1
              /\ \E req \in pending' \ pending :
                   req.run = RunKey(current') /\ req.phase = "events"
       ]_vars
  /\ (searchTimer # NoTimer) ~> (searchTimer = NoTimer /\ typing.loads = typing.bursts)

C20_Witness ==
  /\ lastOp.kind = "search"
  /\ typing.inputs = 2
  /\ typing.bursts = 1
  /\ typing.loads = 1
  /\ searchTimer = NoTimer
  /\ nreq = 2

(* C25: every rendered section is expanded exactly when its episode is not
   in the persisted set of the run it was rendered for, and its banner says
   expanded exactly when its contents are not marked collapsed and hidden. *)
C25_DomMatchesStore ==
  \A i \in 1..Len(dom) :
    /\ dom[i].expanded <=> dom[i].ep \notin Members(store, dom[i].runKey)
    /\ dom[i].expanded <=> ~dom[i].hidden

(* C26: a handler that writes the stored value of a run acts on sections
   rendered from that run's events: a banner click, expand-all, collapse-all
   or jump that changes the stored value of run r finds on the page the
   sections of r's events, rendered for r. *)
C26_StoreWrittenFromOwnSections ==
  [][ \A r \in Runs :
        (store'[r] # store[r] /\ lastOp'.kind \in {"click", "setAll", "jump"}) =>
          /\ domSrc = r
          /\ \A i \in 1..Len(dom) : dom[i].runKey = r
    ]_vars

(* C27: when the user has toggled an episode through its banner and the same
   run is rendered again from the same events document, every episode
   present before and after is displayed as it was. *)
C27_ToggleSurvivesRender ==
  [][ (lastOp.kind = "click" /\ lastOp'.kind = "render" /\ lastOp'.ep # NaN
        /\ lastOp'.run = lastOp.run /\ domSrc' = domSrc /\ domSrc = lastOp.run) =>
        \A e \in Rendered(dom) \cap Rendered(dom') :
          /\ Sec(dom', e).expanded = Sec(dom, e).expanded
          /\ Sec(dom', e).hidden = Sec(dom, e).hidden
    ]_vars

(* C28: in every state, toggleEpisodeSection(r, e, x) leaves the membership of
   every other episode number in the persisted set of r, every section of
   another episode and the stored value of every other run as they are. *)
C28_ToggleFrame ==
  \A r \in Runs : \A e \in Episodes : \A x \in {"true", "false", "undefined"} :
    LET t == toggleEpisodeSection(dom, store, r, e, x) IN
    /\ \A r2 \in Runs \ {r} : t.store[r2] = store[r2]
    /\ \A e2 \in (Episodes \cup {NaN}) \ {e} :
         (e2 \in Members(t.store, r)) <=> (e2 \in Members(store, r))
    /\ Len(t.dom) = Len(dom)
    /\ \A i \in 1..Len(dom) : dom[i].ep # e => t.dom[i] = dom[i]
    /\ \A i \in 1..Len(dom) :
         dom[i].ep = e => [t.dom[i] EXCEPT !.expanded = TRUE, !.hidden = TRUE]
                          = [dom[i] EXCEPT !.expanded = TRUE, !.hidden = TRUE]

C28_Witness ==
  /\ lastOp.kind = "click"
  /\ ~lastOp.flag
  /\ Len(dom) = 2
  /\ Collapsed(dom, lastOp.ep)
  /\ \E i \in 1..Len(dom) : dom[i].ep # lastOp.ep /\ Collapsed(dom, dom[i].ep)
  /\ Cardinality(Members(store, lastOp.run)) = 3

(* C29: once init() has chosen the run to display, that run is a member of
   the loaded runs list and the run selector shows it. *)
C29_InitialRunListed ==
  current # Null => (current \in Range(runs) /\ runSel = current)

(* C30: after renderTimeline on a non-empty list every input event appears
   exactly once, as a card or as a run-end banner, in the section of its own
   episode (0 when it has none); no section is empty, no two sections have
   the same episode number, and the jump selector lists the episode numbers
   of the rendered sections in their order. *)
C30_RenderCovers ==
  AfterRender =>
    LET evs == doc[domSrc]
        Places(k) == {p \in {<<i, j>> : i \in 1..Len(dom), j \in 1..MaxEvents + 1} :
                        p[2] <= Len(dom[p[1]].items) /\ dom[p[1]].items[p[2]].id = k}
    IN /\ \A k \in 1..Len(evs) :
            /\ Cardinality(Places(k)) = 1
            /\ \A p \in Places(k) :
                 /\ dom[p[1]].ep = Ep(evs[k])
                 /\ dom[p[1]].items[p[2]].kind \in {"event", "run-end-banner"}
       /\ \A i \in 1..Len(dom) :
            /\ dom[i].items # <<>>
            /\ \A j \in 1..Len(dom[i].items) : dom[i].items[j].id \in 1..Len(evs)
       /\ \A i, j \in 1..Len(dom) : i # j => dom[i].ep # dom[j].ep
       /\ selector = [i \in 1..Len(dom) |-> dom[i].ep]

C30_Witness ==
  /\ AfterRender
  /\ Len(doc[domSrc]) = 3
  /\ doc[domSrc][1].episode = 2
  /\ doc[domSrc][2].episode = NoEp
  /\ doc[domSrc][3].episode = 0
  /\ selector = <<0, 2>>
  /\ Len(dom[1].items) = 2

(* C24 as claimed: the permalink button of episode N leaves the sections,
   the stored sets and the page URL as they are, and the link it copies,
   loaded as a page of the same run, ends with episode N expanded after a
   plain click and collapsed after a shift-click, whatever the query string
   of the current page. *)
C24_CopiedLinkLoads ==
  [][ lastOp'.kind = "permalink" =>
        /\ dom' = dom /\ store' = store /\ url' = url
        /\ LET c == clipboard'
               r == renderTimeline(doc[domSrc], store, current, c.link)
           IN /\ c.ep \in Rendered(r.dom)
              /\ Sec(r.dom, c.ep).expanded = ~c.shift
    ]_vars

(* C22: speciesToFilename returns no value or a string of lower-case letters,
   digits and hyphens that keeps the letters and digits of the lower-cased
   name in order; "Mr. Mime" gives "mr-mime"; the image URL is missing
   exactly when the name is missing, empty or normalises to the empty string;
   and speciesToFilename maps its own non-empty result to itself. *)
C22_FileNames ==
  LET f == speciesToFilename(img.name)
      alnum(cs) == SelectSeq(cs, LAMBDA c : c \in LowerAlnum)
  IN /\ f.kind = "null" <=> Falsy(img.name)
     /\ \A i \in 1..Len(f.cs) : f.cs[i] \in LowerAlnum \cup {"-"}
     /\ alnum(f.cs) = alnum(toLowerCase(img.name.cs))
     /\ img.name = JsString(MrMime) => f = JsString(<<"m", "r", "-", "m", "i", "m", "e">>)
     /\ ~Falsy(f) => speciesToFilename(f) = f
     /\ img.made => (Falsy(img.url) <=> (Falsy(img.name) \/ f.cs = <<>>))
     /\ (img.made /\ ~Falsy(img.url)) =>
          /\ SubSeq(img.url.cs, Len(img.url.cs) - 3, Len(img.url.cs)) = <<".", "p", "n", "g">>
          /\ includes(img.url.cs, f.cs)

C22_Witness ==
  /\ img.made
  /\ img.name = JsString(MrMime)
  /\ img.url = JsString(SPRITES_PATH \o <<"m", "r", "-", "m", "i", "m", "e">>
                                     \o <<".", "p", "n", "g">>)

(* C23: an image created with a URL has its placeholder set at most once: it
   shows the URL with the handler installed until the first error, which
   removes the handler and sets the placeholder; no later error, the
   placeholder's own included, sets it again.  An image created without a
   URL shows the placeholder at once and never has the handler installed. *)
C23_PlaceholderOnce ==
  /\ [](img.made =>
          IF Falsy(img.url)
          THEN img.sets = 1 /\ ~img.el.onerror /\ img.el.src.kind = "data"
          ELSE /\ img.sets <= 1
               /\ img.sets = 0 => (img.el.onerror /\ img.el.src = img.url)
               /\ img.sets = 1 => (~img.el.onerror /\ img.el.src.kind = "data"))
  /\ [][ (img.made /\ img'.errors = img.errors + 1) =>
            /\ img.el.onerror => (img'.sets = img.sets + 1 /\ ~img'.el.onerror)
            /\ ~img.el.onerror => img'.el = img.el /\ img'.sets = img.sets
      ]_vars

C23_Witness ==
  /\ img.made
  /\ ~Falsy(img.url)
  /\ img.errors = 2
  /\ img.sets = 1
  /\ img.el.src = [kind |-> "data", cs |-> <<"M", "R", ".">>]

(* C21 as claimed: after a render every card's ribbon follows the priority
   special, failed, illegal: an event whose special flag is true, a string
   or an object carries its label, or without a label the nickname, or
   without a nickname "Named after Luc"; any other failed event carries
   "Failed Encounter"; any other illegal event carries "Illegal Encounter";
   so a failed or illegal event always has a ribbon. *)
C21_RibbonPriority ==
  (lastOp.kind = "render") =>
    \A i \in 1..Len(dom) : \A j \in 1..Len(dom[i].items) :
      LET it == dom[i].items[j]
          ev == EventOf(it)
          sp == ev.special
          failed == ev.failed \/ ev.type = "failed"
          illegal == ev.illegal \/ ev.type = "illegal"
          label == IF sp.kind \in {"string", "object"} /\ sp.label # "" THEN sp.label
                   ELSE IF ev.nickname # "" THEN ev.nickname
                   ELSE "Named after Luc"
      IN it.kind = "event" =>
           /\ it.ribbon = (IF sp.kind \in {"true", "string", "object"} THEN label
                           ELSE IF failed THEN "Failed Encounter"
                           ELSE IF illegal THEN "Illegal Encounter"
                           ELSE "")
           /\ (failed \/ illegal) => it.ribbon # ""

====
